---- MODULE Spec2Model ----
(***************************************************************************)
(* A model of the schema-based provider mux (package tfmux):               *)
(* NewSchemaServerFactory builds the routing table from the schemas of an  *)
(* ordered list of provider servers, SchemaServerFactory.Server builds the *)
(* SchemaServer, and the SchemaServer routes or fans out each RPC.         *)
(*                                                                         *)
(* Go's nil is modelled by a value of the same shape as the non-nil values *)
(* (NilSchema, NilDiag, NoError, isNil): TLC compares only like values.    *)
(***************************************************************************)
EXTENDS Integers, Sequences, FiniteSets, TLC

\* ------------------------------------------------------------------ bounds
\* the largest number of server functions passed to NewSchemaServerFactory
MaxServers == 2
\* the largest number of diagnostics in one response
MaxDiags == 2
\* the largest number of schema items (provider schema, provider_meta schema,
\* resource, data source, diagnostic) in all GetProviderSchema responses of a build
MaxItems == 4
\* the same, in the runs that go on to serve type-keyed requests
MaxRoutedItems == 3
\* the largest number of server functions in the runs that go on to fan out
MaxFanServers == 3
\* the largest number of ConfigureProvider / StopProvider requests served at once
MaxFlights == 2
\* the number of different values of each type that a DynamicValue may encode
MaxValues == 2

\* ------------------------------------------------------------------ values
\* the type names a server may declare
TypeNames == {"a", "b"}
\* the type names a request may carry; "zz" is declared by no server
ReqTypeNames == TypeNames \cup {"zz"}

SeverityError == "ERROR"
SeverityWarning == "WARNING"

NilDiag == [Severity |-> "nil", Summary |-> <<>>]
\* the i-th diagnostic of the response of the server at position pos to the
\* operation op; every diagnostic of a run is distinct from the others
Diag(sev, op, pos, i) ==
    IF sev = "nil" THEN NilDiag ELSE [Severity |-> sev, Summary |-> <<op, pos, i>>]

\* the diagnostics a server may return: every sequence of at most n entries,
\* each nil, a warning or an error
DiagSeqs(op, pos, n) ==
    UNION {{[i \in 1..k |-> Diag(sevs[i], op, pos, i)] :
               sevs \in [1..k -> {"nil", SeverityWarning, SeverityError}]} : k \in 0..n}

NilSchema == [from |-> -1, kind |-> "nil", name |-> ""]
\* the schema the server at position pos declares for (kind, name)
Schema(pos, kind, name) == [from |-> pos, kind |-> kind, name |-> name]

EmptyMap == [n \in {} |-> NilSchema]
NoPositions == [n \in {} |-> 0]

\* ------------------------------------------------------------------ errors
NoError ==
    [kind |-> "nil", name |-> "", first |-> "", second |-> "", cause |-> "", diag |-> NilDiag]

\* %T of a provider server: the Go type of the server at position pos. Servers
\* at different positions may share their type.
GoTypeOfServer(pos) == IF pos % 2 = 0 THEN "*provider.A" ELSE "*provider.B"
\* %T of an element of factory.servers, a func() tfprotov5.ProviderServer
GoTypeOfServerFunc(pos) == "func() tfprotov5.ProviderServer"

\* fmt.Errorf("error retrieving schema for %T: %w", s, err)
ErrRetrievingSchema(pos, cause) ==
    [NoError EXCEPT !.kind = "error retrieving schema", !.first = GoTypeOfServer(pos),
                    !.cause = cause]
\* fmt.Errorf("error retrieving schema for %T:\n\n\tAttribute: ...", s, diag...)
ErrSchemaDiagnostic(pos, diag) ==
    [NoError EXCEPT !.kind = "error diagnostic retrieving schema",
                    !.first = GoTypeOfServer(pos), !.diag = diag]
\* fmt.Errorf("provider schema supported by multiple server implementations (%T, %T)...",
\*            factory.servers[factory.providerSchemaFrom], s)
ErrDuplicateProviderSchema(from, pos) ==
    [NoError EXCEPT !.kind = "duplicate provider schema",
                    !.first = GoTypeOfServerFunc(from), !.second = GoTypeOfServer(pos)]
ErrDuplicateProviderMetaSchema(from, pos) ==
    [NoError EXCEPT !.kind = "duplicate provider_meta schema",
                    !.first = GoTypeOfServerFunc(from), !.second = GoTypeOfServer(pos)]
\* fmt.Errorf("resource %q supported by multiple server implementations (%T, %T)...",
\*            resource, factory.servers[v], s)
ErrDuplicateResource(name, v, pos) ==
    [NoError EXCEPT !.kind = "duplicate resource", !.name = name,
                    !.first = GoTypeOfServerFunc(v), !.second = GoTypeOfServer(pos)]
ErrDuplicateDataSource(name, v, pos) ==
    [NoError EXCEPT !.kind = "duplicate data source", !.name = name,
                    !.first = GoTypeOfServerFunc(v), !.second = GoTypeOfServer(pos)]
\* fmt.Errorf("%q isn't supported by any servers", req.TypeName)
ErrNotSupported(name) ==
    [NoError EXCEPT !.kind = "isn't supported by any servers", !.name = name]

\* ------------------------------------------------------------------ state
VARIABLES
    nServers,     \* len(servers): the number of server functions passed to the build
    pc,           \* "NewSchemaServerFactory" while the build loop runs, then "returned"
    pos,          \* the build loop's position
    factory,      \* the SchemaServerFactory being built, then returned
    factoryErr,   \* the error NewSchemaServerFactory returned
    schemaResps,  \* history: the GetProviderSchema responses received, in order
    instances,    \* history: every server() call made, in order; the index is the instance
    router,       \* the SchemaServer that Server() returned
    req,          \* the request being served, or served last
    calls,        \* the calls that request has made to servers, in order
    result,       \* what the last request returned
    fan,          \* the position of the ConfigureProvider / StopProvider loop in flight
    flights,      \* the ConfigureProvider / StopProvider requests served concurrently
    eq            \* a call of dynamicValueEquals: its arguments and what it returned

vars == <<nServers, pc, pos, factory, factoryErr, schemaResps, instances, router, req,
          calls, result, fan, flights, eq>>

Positions == 0..(nServers - 1)

\* ------------------------------------------------------------------ the servers' answers
\* GetProviderSchema of the server at position p failing with an error
SchemaCallFailure(p) ==
    [err |-> "schema unavailable", Diagnostics |-> <<>>, Provider |-> NilSchema,
     ProviderMeta |-> NilSchema, ResourceSchemas |-> EmptyMap, DataSourceSchemas |-> EmptyMap]

\* the number of schema items of a response
Items(resp) ==
    Len(resp.Diagnostics) + Cardinality(DOMAIN resp.ResourceSchemas)
  + Cardinality(DOMAIN resp.DataSourceSchemas)
  + (IF resp.Provider = NilSchema THEN 0 ELSE 1)
  + (IF resp.ProviderMeta = NilSchema THEN 0 ELSE 1)

\* what GetProviderSchema of the server at position p may return: a failure, or
\* any response of at most maxItems items, at most maxDiags of them diagnostics
SchemaResponses(p, maxDiags, maxItems) ==
    {SchemaCallFailure(p)} \cup
    {resp \in [err : {""},
               Diagnostics : DiagSeqs("GetProviderSchema", p, maxDiags),
               Provider : {NilSchema, Schema(p, "provider", "")},
               ProviderMeta : {NilSchema, Schema(p, "provider_meta", "")},
               ResourceSchemas :
                   {[n \in S |-> Schema(p, "resource", n)] : S \in SUBSET TypeNames},
               DataSourceSchemas :
                   {[n \in S |-> Schema(p, "data source", n)] : S \in SUBSET TypeNames}] :
        Items(resp) <= maxItems}

\* the orders in which Go may range over a map with the keys S
RangeOrders(S) ==
    {o \in [1..Cardinality(S) -> S] : \A i, j \in DOMAIN o : i # j => o[i] # o[j]}

\* ------------------------------------------------------------------ NewSchemaServerFactory
\* the factory before the loop
NewFactory(n) ==
    [resources |-> NoPositions, dataSources |-> NoPositions,
     servers |-> [p \in 0..(n - 1) |-> FALSE],
     resourceSchemas |-> EmptyMap, dataSourceSchemas |-> EmptyMap,
     providerSchema |-> NilSchema, providerMetaSchema |-> NilSchema,
     diagnostics |-> <<>>,
     providerSchemaFrom |-> -1, providerMetaSchemaFrom |-> -1]

RECURSIVE WalkDiagnosticsKeepingErrors(_, _, _, _)
\* the loop over resp.Diagnostics storing error-severity entries like the others
WalkDiagnosticsKeepingErrors(f, p, diags, i) ==
    IF i > Len(diags) THEN [factory |-> f, err |-> NoError]
    ELSE IF diags[i] = NilDiag THEN WalkDiagnosticsKeepingErrors(f, p, diags, i + 1)
    ELSE WalkDiagnosticsKeepingErrors([f EXCEPT !.diagnostics = Append(@, diags[i])],
                                      p, diags, i + 1)

RECURSIVE WalkDiagnostics(_, _, _, _)
\* the loop over resp.Diagnostics, from its i-th entry
WalkDiagnostics(f, p, diags, i) ==
    IF i > Len(diags) THEN [factory |-> f, err |-> NoError]
    ELSE IF diags[i] = NilDiag THEN WalkDiagnostics(f, p, diags, i + 1)
    ELSE IF diags[i].Severity # SeverityError
        THEN WalkDiagnostics([f EXCEPT !.diagnostics = Append(@, diags[i])], p, diags, i + 1)
    ELSE [factory |-> f, err |-> ErrSchemaDiagnostic(p, diags[i])]

RecordProviderSchema(f, p, resp) ==
    IF resp.Provider # NilSchema /\ f.providerSchema # NilSchema
        THEN [factory |-> f, err |-> ErrDuplicateProviderSchema(f.providerSchemaFrom, p)]
    ELSE IF resp.Provider # NilSchema
        THEN [factory |-> [f EXCEPT !.providerSchemaFrom = p, !.providerSchema = resp.Provider],
              err |-> NoError]
    ELSE [factory |-> f, err |-> NoError]

RecordProviderMetaSchema(f, p, resp) ==
    IF resp.ProviderMeta # NilSchema /\ f.providerMetaSchema # NilSchema
        THEN [factory |-> f,
              err |-> ErrDuplicateProviderMetaSchema(f.providerMetaSchemaFrom, p)]
    ELSE IF resp.ProviderMeta # NilSchema
        THEN [factory |-> [f EXCEPT !.providerMetaSchemaFrom = p,
                                    !.providerMetaSchema = resp.ProviderMeta],
              err |-> NoError]
    ELSE [factory |-> f, err |-> NoError]

RECURSIVE RegisterResourcesWithoutSchema(_, _, _, _, _)
\* RegisterResources without its `factory.resourceSchemas[resource] = schema`
RegisterResourcesWithoutSchema(f, p, schemas, order, i) ==
    IF i > Len(order) THEN [factory |-> f, err |-> NoError]
    ELSE IF order[i] \in DOMAIN f.resources
        THEN [factory |-> f,
              err |-> ErrDuplicateResource(order[i], f.resources[order[i]], p)]
    ELSE RegisterResourcesWithoutSchema(
             [f EXCEPT !.resources = (order[i] :> p) @@ @], p, schemas, order, i + 1)

RECURSIVE RegisterResources(_, _, _, _, _)
\* the loop over resp.ResourceSchemas, ranging in the order `order`, from its i-th key
RegisterResources(f, p, schemas, order, i) ==
    IF i > Len(order) THEN [factory |-> f, err |-> NoError]
    ELSE IF order[i] \in DOMAIN f.resources
        THEN [factory |-> f,
              err |-> ErrDuplicateResource(order[i], f.resources[order[i]], p)]
    ELSE RegisterResources(
             [f EXCEPT !.resources = (order[i] :> p) @@ @,
                       !.resourceSchemas = (order[i] :> schemas[order[i]]) @@ @],
             p, schemas, order, i + 1)

RECURSIVE RegisterDataSourcesOverwriting(_, _, _, _, _)
\* RegisterDataSources without its `if v, ok := factory.dataSources[data]; ok` check
RegisterDataSourcesOverwriting(f, p, schemas, order, i) ==
    IF i > Len(order) THEN [factory |-> f, err |-> NoError]
    ELSE RegisterDataSourcesOverwriting(
             [f EXCEPT !.dataSources = (order[i] :> p) @@ @,
                       !.dataSourceSchemas = (order[i] :> schemas[order[i]]) @@ @],
             p, schemas, order, i + 1)

RECURSIVE RegisterDataSourcesSharedNames(_, _, _, _, _)
\* RegisterDataSources refusing a name that is registered as a resource as well
RegisterDataSourcesSharedNames(f, p, schemas, order, i) ==
    IF i > Len(order) THEN [factory |-> f, err |-> NoError]
    ELSE IF order[i] \in DOMAIN f.dataSources
        THEN [factory |-> f,
              err |-> ErrDuplicateDataSource(order[i], f.dataSources[order[i]], p)]
    ELSE IF order[i] \in DOMAIN f.resources
        THEN [factory |-> f,
              err |-> ErrDuplicateDataSource(order[i], f.resources[order[i]], p)]
    ELSE RegisterDataSourcesSharedNames(
             [f EXCEPT !.dataSources = (order[i] :> p) @@ @,
                       !.dataSourceSchemas = (order[i] :> schemas[order[i]]) @@ @],
             p, schemas, order, i + 1)

RECURSIVE RegisterDataSources(_, _, _, _, _)
\* the loop over resp.DataSourceSchemas, ranging in the order `order`, from its i-th key
RegisterDataSources(f, p, schemas, order, i) ==
    IF i > Len(order) THEN [factory |-> f, err |-> NoError]
    ELSE IF order[i] \in DOMAIN f.dataSources
        THEN [factory |-> f,
              err |-> ErrDuplicateDataSource(order[i], f.dataSources[order[i]], p)]
    ELSE RegisterDataSources(
             [f EXCEPT !.dataSources = (order[i] :> p) @@ @,
                       !.dataSourceSchemas = (order[i] :> schemas[order[i]]) @@ @],
             p, schemas, order, i + 1)

\* one pass of the loop over servers, after server() has been called: the factory
\* and the error it leaves (NoError when the loop goes on)
SchemaLoopBody(f, p, resp, resOrder, dsOrder) ==
    IF resp.err # "" THEN [factory |-> f, err |-> ErrRetrievingSchema(p, resp.err)]
    ELSE
    LET s1 == WalkDiagnostics([f EXCEPT !.servers[p] = TRUE], p, resp.Diagnostics, 1)
        s2 == RecordProviderSchema(s1.factory, p, resp)
        s3 == RecordProviderMetaSchema(s2.factory, p, resp)
        s4 == RegisterResources(s3.factory, p, resp.ResourceSchemas, resOrder, 1)
        s5 == RegisterDataSources(s4.factory, p, resp.DataSourceSchemas, dsOrder, 1)
    IN  IF s1.err # NoError THEN s1
        ELSE IF s2.err # NoError THEN s2
        ELSE IF s3.err # NoError THEN s3
        ELSE IF s4.err # NoError THEN s4
        ELSE s5

NoRouter ==
    [state |-> "none", resources |-> NoPositions, dataSources |-> NoPositions,
     servers |-> <<>>, getSchemaHandler |-> NewFactory(0), prepareProviderConfigServer |-> -1]
NoRequest == [op |-> "", TypeName |-> "", Config |-> ""]
NoResult == [op |-> "", resp |-> "", err |-> NoError, panic |-> FALSE]
NoFan == [op |-> "", i |-> 0, diags |-> <<>>]
\* a goroutine that serves no request; log lists the calls it began and saw return
IdleFlight == [op |-> "", pc |-> "idle", i |-> 0, diags |-> <<>>, log |-> <<>>,
               result |-> NoResult]
Flights == 1..MaxFlights

\* no call of dynamicValueEquals
NoComparison ==
    [state |-> "none", schemaType |-> "nil",
     i |-> [isNil |-> TRUE, enc |-> "", typ |-> "", val |-> 0],
     j |-> [isNil |-> TRUE, enc |-> "", typ |-> "", val |-> 0],
     equal |-> FALSE, err |-> ""]

\* the state of the servers when NewSchemaServerFactory is called with at most
\* maxServers functions
InitServers(maxServers) ==
    /\ nServers \in 0..maxServers
    /\ pc = "NewSchemaServerFactory"
    /\ pos = 0
    /\ factory = NewFactory(nServers)
    /\ factoryErr = NoError
    /\ schemaResps = <<>>
    /\ instances = <<>>
    /\ router = NoRouter
    /\ req = NoRequest
    /\ calls = <<>>
    /\ result = NoResult
    /\ fan = NoFan
    /\ flights = [f \in Flights |-> IdleFlight]

\* the state when NewSchemaServerFactory is called with at most maxServers functions
InitWith(maxServers) ==
    /\ InitServers(maxServers)
    /\ eq = NoComparison

Init == InitWith(MaxServers)

RECURSIVE ItemsOfAll(_)
\* the number of schema items of the responses resps
ItemsOfAll(resps) ==
    IF resps = <<>> THEN 0 ELSE Items(Head(resps)) + ItemsOfAll(Tail(resps))

\* one pass of the loop over servers: s := server(), s.GetProviderSchema, and the
\* checks of its response; the servers answer with at most maxDiags diagnostics
\* each and at most maxItems items together
SchemaLoop(maxDiags, maxItems) ==
    /\ pc = "NewSchemaServerFactory"
    /\ pos < nServers
    /\ \E resp \in SchemaResponses(pos, maxDiags, maxItems - ItemsOfAll(schemaResps)) :
       \E resOrder \in RangeOrders(DOMAIN resp.ResourceSchemas) :
       \E dsOrder \in RangeOrders(DOMAIN resp.DataSourceSchemas) :
          LET out == SchemaLoopBody(factory, pos, resp, resOrder, dsOrder) IN
          /\ instances' = Append(instances, [pos |-> pos, by |-> "NewSchemaServerFactory"])
          /\ schemaResps' = Append(schemaResps, resp)
          /\ factory' = out.factory
          /\ factoryErr' = out.err
          /\ IF out.err # NoError
                THEN pc' = "returned" /\ pos' = pos
                ELSE pc' = pc /\ pos' = pos + 1
    /\ UNCHANGED <<eq, flights, nServers, router, req, calls, result, fan>>

\* return factory, nil
NewSchemaServerFactoryReturn ==
    /\ pc = "NewSchemaServerFactory"
    /\ pos = nServers
    /\ pc' = "returned"
    /\ UNCHANGED <<eq, flights, nServers, pos, factory, factoryErr, schemaResps, instances, router, req,
                   calls, result, fan>>

\* ------------------------------------------------------------------ Server
\* the positions whose server function Server() calls: all of them, or those
\* before the first nil function, whose call panics
ServerCalled(f, n) ==
    {p \in 0..(n - 1) : \A q \in 0..p : q = p \/ f.servers[q]}

\* Server() filling the maps with the instances NewSchemaServerFactory made, which
\* are the first in `instances`, one per position
ServerBodyBuildInstances(f, insts) ==
    [state |-> "ok",
     getSchemaHandler |-> f,
     prepareProviderConfigServer |-> f.providerSchemaFrom,
     servers |-> insts,
     resources |-> [r \in DOMAIN f.resources |-> f.resources[r] + 1],
     dataSources |-> [ds \in DOMAIN f.dataSources |-> f.dataSources[ds] + 1]]

\* the SchemaServer that Server() builds from the instances insts (by position)
ServerBody(f, insts) ==
    [state |-> "ok",
     getSchemaHandler |-> f,
     prepareProviderConfigServer |-> f.providerSchemaFrom,
     servers |-> insts,
     resources |-> [r \in DOMAIN f.resources |-> insts[f.resources[r]]],
     dataSources |-> [ds \in DOMAIN f.dataSources |-> insts[f.dataSources[ds]]]]

\* SchemaServerFactory.Server, on the factory NewSchemaServerFactory returned,
\* whatever error came with it
Server ==
    /\ pc = "returned"
    /\ router.state = "none"
    /\ LET called == ServerCalled(factory, nServers)
           good == {p \in called : factory.servers[p]}
           insts == [p \in good |-> Len(instances) + p + 1]
       IN /\ instances' = instances \o
                 [i \in 1..Cardinality(good) |-> [pos |-> i - 1, by |-> "Server"]]
          /\ router' = IF good = Positions
                          THEN ServerBody(factory, insts)
                          ELSE [NoRouter EXCEPT !.state = "panic"]
    /\ UNCHANGED <<eq, flights, nServers, pc, pos, factory, factoryErr, schemaResps, req, calls, result,
                   fan>>

\* ------------------------------------------------------------------ the handlers' receiver
\* a router that drops its routing entries once it has been asked to stop
ReceiverForgettingStopped(s, r) ==
    IF r.op = "StopProvider"
        THEN [s EXCEPT !.resources = NoPositions, !.dataSources = NoPositions]
        ELSE s

\* the SchemaServer after one of its handlers has run on the request r: the
\* handlers have value receivers and assign to none of its fields, maps or slices
Receiver(s, r) == s

\* ------------------------------------------------------------------ GetProviderSchema
\* getSchemaHandler answering ProviderMeta with the provider schema
getSchemaHandlerMetaFromProvider(s) ==
    [Provider |-> s.providerSchema,
     ResourceSchemas |-> s.resourceSchemas,
     DataSourceSchemas |-> s.dataSourceSchemas,
     ProviderMeta |-> s.providerSchema,
     Diagnostics |-> <<>>]

getSchemaHandler(s) ==
    [Provider |-> s.providerSchema,
     ResourceSchemas |-> s.resourceSchemas,
     DataSourceSchemas |-> s.dataSourceSchemas,
     ProviderMeta |-> s.providerMetaSchema,
     Diagnostics |-> <<>>]

GetProviderSchema ==
    /\ router.state = "ok"
    /\ fan = NoFan
    /\ req' = [NoRequest EXCEPT !.op = "GetProviderSchema"]
    /\ calls' = <<>>
    /\ result' = [NoResult EXCEPT !.op = "GetProviderSchema",
                                  !.resp = getSchemaHandler(router.getSchemaHandler)]
    /\ router' = Receiver(router, req')
    /\ UNCHANGED <<eq, flights, nServers, pc, pos, factory, factoryErr, schemaResps, instances, fan>>

\* ------------------------------------------------------------------ the build alone
NextBuild ==
    \/ SchemaLoop(MaxDiags, MaxItems)
    \/ NewSchemaServerFactoryReturn
    \/ Server
    \/ GetProviderSchema

SpecBuild == Init /\ [][NextBuild]_vars

\* ------------------------------------------------------------------ PrepareProviderConfig
\* fmt.Errorf("no server is set to provide the provider's schema")
ErrNoProviderSchemaServer ==
    [NoError EXCEPT !.kind = "no server is set to provide the provider's schema"]

\* what PrepareProviderConfig of a server may return
PrepareAnswers ==
    {[resp |-> "prepared config", err |-> NoError],
     [resp |-> "nil", err |-> [NoError EXCEPT !.kind = "server error", !.cause = "failed"]]}

\* PrepareProviderConfig calling the first server, whichever declared the schema
PrepareProviderConfigFirstServer(s, r, answer) ==
    IF Cardinality(DOMAIN s.servers) = 0
        THEN [calls |-> <<>>,
              result |-> [NoResult EXCEPT !.op = "PrepareProviderConfig", !.resp = "nil",
                                          !.err = ErrNoProviderSchemaServer]]
        ELSE [calls |-> <<[server |-> s.servers[0], op |-> "PrepareProviderConfig",
                          req |-> r, answer |-> answer]>>,
              result |-> [NoResult EXCEPT !.op = "PrepareProviderConfig",
                                          !.resp = answer.resp, !.err = answer.err]]

\* answer is what the server's PrepareProviderConfig returns when it is called
PrepareProviderConfigBody(s, r, answer) ==
    IF \/ s.prepareProviderConfigServer < 0
       \/ Cardinality(DOMAIN s.servers) <= s.prepareProviderConfigServer
        THEN [calls |-> <<>>,
              result |-> [NoResult EXCEPT !.op = "PrepareProviderConfig", !.resp = "nil",
                                          !.err = ErrNoProviderSchemaServer]]
        ELSE [calls |-> <<[server |-> s.servers[s.prepareProviderConfigServer],
                          op |-> "PrepareProviderConfig", req |-> r, answer |-> answer]>>,
              result |-> [NoResult EXCEPT !.op = "PrepareProviderConfig",
                                          !.resp = answer.resp, !.err = answer.err]]

PrepareProviderConfig ==
    /\ router.state = "ok"
    /\ fan = NoFan
    /\ \E answer \in PrepareAnswers :
          LET r == [op |-> "PrepareProviderConfig", TypeName |-> "", Config |-> "config 1"]
              out == PrepareProviderConfigBody(router, r, answer)
          IN  /\ req' = r
              /\ calls' = out.calls
              /\ result' = out.result
    /\ router' = Receiver(router, req')
    /\ UNCHANGED <<eq, flights, nServers, pc, pos, factory, factoryErr, schemaResps, instances, fan>>

\* ------------------------------------------------------------------ type-keyed operations
\* what a server may answer to a type-keyed operation: a response, an error, or both
ServerError(cause) == [NoError EXCEPT !.kind = "server error", !.cause = cause]
ServerAnswers ==
    {[resp |-> "response 1", err |-> NoError],
     [resp |-> "response 2", err |-> ServerError("failed")]}

\* the requests of a type-keyed operation
TypeRequests(op) == [op : {op}, TypeName : ReqTypeNames, Config : {"config 1"}]

\* Dispatch with an error that does not carry req.TypeName
DispatchUnnamedError(table, op, r, answer) ==
    IF r.TypeName \notin DOMAIN table
        THEN [calls |-> <<>>,
              result |-> [NoResult EXCEPT !.op = op, !.resp = "nil",
                                          !.err = ErrNotSupported("")]]
        ELSE [calls |-> <<[server |-> table[r.TypeName], op |-> op, req |-> r,
                          answer |-> answer]>>,
              result |-> [NoResult EXCEPT !.op = op, !.resp = answer.resp,
                                          !.err = answer.err]]

\* h, ok := table[req.TypeName]; if !ok { return nil, fmt.Errorf(...) }; return h.op(ctx, req)
\* answer is what h.op returns when it is called
Dispatch(table, op, r, answer) ==
    IF r.TypeName \notin DOMAIN table
        THEN [calls |-> <<>>,
              result |-> [NoResult EXCEPT !.op = op, !.resp = "nil",
                                          !.err = ErrNotSupported(r.TypeName)]]
        ELSE [calls |-> <<[server |-> table[r.TypeName], op |-> op, req |-> r,
                          answer |-> answer]>>,
              result |-> [NoResult EXCEPT !.op = op, !.resp = answer.resp,
                                          !.err = answer.err]]

ValidateResourceTypeConfigBody(s, r, answer) ==
    Dispatch(s.resources, "ValidateResourceTypeConfig", r, answer)
\* ValidateDataSourceConfig looking its type name up in s.resources
ValidateDataSourceConfigInResources(s, r, answer) ==
    Dispatch(s.resources, "ValidateDataSourceConfig", r, answer)
ValidateDataSourceConfigBody(s, r, answer) ==
    Dispatch(s.dataSources, "ValidateDataSourceConfig", r, answer)
UpgradeResourceStateBody(s, r, answer) ==
    Dispatch(s.resources, "UpgradeResourceState", r, answer)
ReadResourceBody(s, r, answer) ==
    Dispatch(s.resources, "ReadResource", r, answer)
PlanResourceChangeBody(s, r, answer) ==
    Dispatch(s.resources, "PlanResourceChange", r, answer)
ApplyResourceChangeBody(s, r, answer) ==
    Dispatch(s.resources, "ApplyResourceChange", r, answer)
ImportResourceStateBody(s, r, answer) ==
    Dispatch(s.resources, "ImportResourceState", r, answer)
ReadDataSourceBody(s, r, answer) ==
    Dispatch(s.dataSources, "ReadDataSource", r, answer)

\* a type-keyed request r served to its end, the server called answering `answer`
Serve(r, out) ==
    /\ router.state = "ok"
    /\ fan = NoFan
    /\ req' = r
    /\ calls' = out.calls
    /\ result' = out.result
    /\ router' = Receiver(router, r)
    /\ UNCHANGED <<eq, flights, nServers, pc, pos, factory, factoryErr, schemaResps, instances, fan>>

ValidateResourceTypeConfig ==
    \E r \in TypeRequests("ValidateResourceTypeConfig"), answer \in ServerAnswers :
        Serve(r, ValidateResourceTypeConfigBody(router, r, answer))
ValidateDataSourceConfig ==
    \E r \in TypeRequests("ValidateDataSourceConfig"), answer \in ServerAnswers :
        Serve(r, ValidateDataSourceConfigBody(router, r, answer))
UpgradeResourceState ==
    \E r \in TypeRequests("UpgradeResourceState"), answer \in ServerAnswers :
        Serve(r, UpgradeResourceStateBody(router, r, answer))
ReadResource ==
    \E r \in TypeRequests("ReadResource"), answer \in ServerAnswers :
        Serve(r, ReadResourceBody(router, r, answer))
PlanResourceChange ==
    \E r \in TypeRequests("PlanResourceChange"), answer \in ServerAnswers :
        Serve(r, PlanResourceChangeBody(router, r, answer))
ApplyResourceChange ==
    \E r \in TypeRequests("ApplyResourceChange"), answer \in ServerAnswers :
        Serve(r, ApplyResourceChangeBody(router, r, answer))
ImportResourceState ==
    \E r \in TypeRequests("ImportResourceState"), answer \in ServerAnswers :
        Serve(r, ImportResourceStateBody(router, r, answer))
ReadDataSource ==
    \E r \in TypeRequests("ReadDataSource"), answer \in ServerAnswers :
        Serve(r, ReadDataSourceBody(router, r, answer))

ResourceOps ==
    {"ValidateResourceTypeConfig", "UpgradeResourceState", "ReadResource",
     "PlanResourceChange", "ApplyResourceChange", "ImportResourceState"}
DataSourceOps == {"ValidateDataSourceConfig", "ReadDataSource"}

\* ------------------------------------------------------------------ the build and the routing
NextRoute ==
    \/ SchemaLoop(0, MaxRoutedItems)
    \/ NewSchemaServerFactoryReturn
    \/ Server
    \/ GetProviderSchema
    \/ PrepareProviderConfig
    \/ ValidateResourceTypeConfig
    \/ ValidateDataSourceConfig
    \/ UpgradeResourceState
    \/ ReadResource
    \/ PlanResourceChange
    \/ ApplyResourceChange
    \/ ImportResourceState
    \/ ReadDataSource

SpecRoute == Init /\ [][NextRoute]_vars

\* ------------------------------------------------------------------ ConfigureProvider
\* fmt.Errorf("error configuring %T: %w", server, err)
ErrConfiguring(p, cause) ==
    [NoError EXCEPT !.kind = "error configuring", !.first = GoTypeOfServer(p),
                    !.cause = cause]

\* what ConfigureProvider of the server at position p may return: a response with
\* at most maxDiags diagnostics, or an error with a response (nil or not)
ConfigureAnswers(p, maxDiags) ==
    {[err |-> e, isNil |-> FALSE, Diagnostics |-> d] :
        e \in {"", "unavailable"}, d \in DiagSeqs("ConfigureProvider", p, maxDiags)}
    \cup {[err |-> "unavailable", isNil |-> TRUE, Diagnostics |-> <<>>]}

FanRequests(op) == [op : {op}, TypeName : {""}, Config : {"config 1"}]

RECURSIVE ConfigureDiagnosticsKeepingNil(_, _, _)
\* ConfigureDiagnostics without its `if diag == nil { continue }`
ConfigureDiagnosticsKeepingNil(diags, respDiags, i) ==
    IF i > Len(respDiags) THEN [diags |-> diags, returned |-> FALSE]
    ELSE IF respDiags[i].Severity # SeverityError
        THEN ConfigureDiagnosticsKeepingNil(Append(diags, respDiags[i]), respDiags, i + 1)
    ELSE [diags |-> Append(diags, respDiags[i]), returned |-> TRUE]

\* ConfigureDiagnostics walking the whole response before it returns at an error
ConfigureDiagnosticsPastError(diags, respDiags, i) ==
    [diags |-> diags \o SelectSeq(SubSeq(respDiags, i, Len(respDiags)),
                                  LAMBDA d : d # NilDiag),
     returned |-> \E j \in i..Len(respDiags) :
                      respDiags[j] # NilDiag /\ respDiags[j].Severity = SeverityError]

RECURSIVE ConfigureDiagnostics(_, _, _)
\* the loop over resp.Diagnostics, from its i-th entry: diags afterwards, and
\* whether the loop returned at an error diagnostic
ConfigureDiagnostics(diags, respDiags, i) ==
    IF i > Len(respDiags) THEN [diags |-> diags, returned |-> FALSE]
    ELSE IF respDiags[i] = NilDiag THEN ConfigureDiagnostics(diags, respDiags, i + 1)
    ELSE IF respDiags[i].Severity # SeverityError
        THEN ConfigureDiagnostics(Append(diags, respDiags[i]), respDiags, i + 1)
    ELSE [diags |-> Append(diags, respDiags[i]), returned |-> TRUE]

\* ConfigureLoopBody without its `resp.Diagnostics = diags` before `return resp, err`
ConfigureLoopBodyOwnDiags(diags, p, answer) ==
    IF answer.err # ""
        THEN [returned |-> TRUE, diags |-> diags,
              result |-> [NoResult EXCEPT
                             !.op = "ConfigureProvider",
                             !.resp = [isNil |-> answer.isNil,
                                       Diagnostics |-> answer.Diagnostics],
                             !.err = ErrConfiguring(p, answer.err)]]
    ELSE LET w == ConfigureDiagnostics(diags, answer.Diagnostics, 1) IN
         IF w.returned
            THEN [returned |-> TRUE, diags |-> w.diags,
                  result |-> [NoResult EXCEPT
                                 !.op = "ConfigureProvider",
                                 !.resp = [isNil |-> FALSE,
                                           Diagnostics |-> answer.Diagnostics]]]
            ELSE [returned |-> FALSE, diags |-> w.diags, result |-> NoResult]

\* ConfigureLoopBody returning, on a failed call, a response of its own with the
\* diagnostics accumulated so far
ConfigureLoopBodyFreshResponse(diags, p, answer) ==
    IF answer.err # ""
        THEN [returned |-> TRUE, diags |-> diags,
              result |-> [NoResult EXCEPT
                             !.op = "ConfigureProvider",
                             !.resp = [isNil |-> FALSE, Diagnostics |-> diags],
                             !.err = ErrConfiguring(p, answer.err)]]
    ELSE LET w == ConfigureDiagnostics(diags, answer.Diagnostics, 1) IN
         IF w.returned
            THEN [returned |-> TRUE, diags |-> w.diags,
                  result |-> [NoResult EXCEPT
                                 !.op = "ConfigureProvider",
                                 !.resp = [isNil |-> FALSE, Diagnostics |-> w.diags]]]
            ELSE [returned |-> FALSE, diags |-> w.diags, result |-> NoResult]

\* one pass of the loop over s.servers, the server at position p having answered
ConfigureLoopBody(diags, p, answer) ==
    IF answer.err # ""
        THEN [returned |-> TRUE, diags |-> diags,
              result |-> [NoResult EXCEPT
                             !.op = "ConfigureProvider",
                             !.resp = [isNil |-> answer.isNil,
                                       Diagnostics |-> answer.Diagnostics],
                             !.err = ErrConfiguring(p, answer.err)]]
    ELSE LET w == ConfigureDiagnostics(diags, answer.Diagnostics, 1) IN
         IF w.returned
            THEN [returned |-> TRUE, diags |-> w.diags,
                  result |-> [NoResult EXCEPT
                                 !.op = "ConfigureProvider",
                                 !.resp = [isNil |-> FALSE, Diagnostics |-> w.diags]]]
            ELSE [returned |-> FALSE, diags |-> w.diags, result |-> NoResult]

\* return &tfprotov5.ConfigureProviderResponse{Diagnostics: diags}, nil
ConfigureResult(diags) ==
    [NoResult EXCEPT !.op = "ConfigureProvider",
                     !.resp = [isNil |-> FALSE, Diagnostics |-> diags]]

\* a ConfigureProvider request arrives
ConfigureProviderBegin ==
    /\ router.state = "ok"
    /\ fan = NoFan
    /\ \E r \in FanRequests("ConfigureProvider") : req' = r
    /\ calls' = <<>>
    /\ result' = NoResult
    /\ fan' = [op |-> "ConfigureProvider", i |-> 0, diags |-> <<>>]
    /\ UNCHANGED <<eq, flights, nServers, pc, pos, factory, factoryErr, schemaResps, instances, router>>

\* one pass of its loop: the call of the next server, and the walk of its response
ConfigureProviderCall(maxDiags) ==
    /\ fan.op = "ConfigureProvider"
    /\ fan.i < Cardinality(DOMAIN router.servers)
    /\ \E answer \in ConfigureAnswers(fan.i, maxDiags) :
          LET out == ConfigureLoopBody(fan.diags, fan.i, answer) IN
          /\ calls' = Append(calls, [server |-> router.servers[fan.i],
                                     op |-> "ConfigureProvider", req |-> req,
                                     answer |-> answer])
          /\ IF out.returned
                THEN result' = out.result /\ fan' = NoFan
                ELSE result' = result
                     /\ fan' = [fan EXCEPT !.i = fan.i + 1, !.diags = out.diags]
    /\ router' = Receiver(router, req)
    /\ UNCHANGED <<eq, flights, nServers, pc, pos, factory, factoryErr, schemaResps, instances, req>>

\* the loop is over
ConfigureProviderReturn ==
    /\ fan.op = "ConfigureProvider"
    /\ fan.i = Cardinality(DOMAIN router.servers)
    /\ result' = ConfigureResult(fan.diags)
    /\ fan' = NoFan
    /\ router' = Receiver(router, req)
    /\ UNCHANGED <<eq, flights, nServers, pc, pos, factory, factoryErr, schemaResps, instances, req,
                   calls>>

\* ------------------------------------------------------------------ StopProvider
\* fmt.Errorf("error stopping %T: %w", server, err)
ErrStopping(p, cause) ==
    [NoError EXCEPT !.kind = "error stopping", !.first = GoTypeOfServer(p), !.cause = cause]

\* the Error field the server at position p reports when its stop goes wrong
StopErrorOf(p) == <<p>>
NoStopError == <<>>

\* what StopProvider of the server at position p may return: a response whose
\* Error is empty or not, or an error with a response (nil or not)
StopAnswers(p) ==
    {[err |-> e, isNil |-> FALSE, Error |-> m] :
        e \in {"", "unavailable"}, m \in {NoStopError, StopErrorOf(p)}}
    \cup {[err |-> "unavailable", isNil |-> TRUE, Error |-> NoStopError]}

\* StopLoopBody going on to the next server when the call failed
StopLoopBodyContinuing(p, answer) ==
    IF answer.err = "" /\ answer.Error # NoStopError
        THEN [returned |-> TRUE,
              result |-> [NoResult EXCEPT
                             !.op = "StopProvider",
                             !.resp = [isNil |-> FALSE, Error |-> answer.Error]]]
    ELSE [returned |-> FALSE, result |-> NoResult]

\* one pass of the loop over s.servers, the server at position p having answered
StopLoopBody(p, answer) ==
    IF answer.err # ""
        THEN [returned |-> TRUE,
              result |-> [NoResult EXCEPT
                             !.op = "StopProvider",
                             !.resp = [isNil |-> answer.isNil, Error |-> answer.Error],
                             !.err = ErrStopping(p, answer.err)]]
    ELSE IF answer.Error # NoStopError
        THEN [returned |-> TRUE,
              result |-> [NoResult EXCEPT
                             !.op = "StopProvider",
                             !.resp = [isNil |-> FALSE, Error |-> answer.Error]]]
    ELSE [returned |-> FALSE, result |-> NoResult]

\* return &tfprotov5.StopProviderResponse{}, nil
StopResult ==
    [NoResult EXCEPT !.op = "StopProvider",
                     !.resp = [isNil |-> FALSE, Error |-> NoStopError]]

\* a StopProvider request arrives
StopProviderBegin ==
    /\ router.state = "ok"
    /\ fan = NoFan
    /\ \E r \in FanRequests("StopProvider") : req' = r
    /\ calls' = <<>>
    /\ result' = NoResult
    /\ fan' = [op |-> "StopProvider", i |-> 0, diags |-> <<>>]
    /\ UNCHANGED <<eq, flights, nServers, pc, pos, factory, factoryErr, schemaResps, instances, router>>

\* one pass of its loop: the call of the next server, and the checks of its response
StopProviderCall ==
    /\ fan.op = "StopProvider"
    /\ fan.i < Cardinality(DOMAIN router.servers)
    /\ \E answer \in StopAnswers(fan.i) :
          LET out == StopLoopBody(fan.i, answer) IN
          /\ calls' = Append(calls, [server |-> router.servers[fan.i],
                                     op |-> "StopProvider", req |-> req,
                                     answer |-> answer])
          /\ IF out.returned
                THEN result' = out.result /\ fan' = NoFan
                ELSE result' = result /\ fan' = [fan EXCEPT !.i = fan.i + 1]
    /\ router' = Receiver(router, req)
    /\ UNCHANGED <<eq, flights, nServers, pc, pos, factory, factoryErr, schemaResps, instances, req>>

\* the loop is over
StopProviderReturn ==
    /\ fan.op = "StopProvider"
    /\ fan.i = Cardinality(DOMAIN router.servers)
    /\ result' = StopResult
    /\ fan' = NoFan
    /\ router' = Receiver(router, req)
    /\ UNCHANGED <<eq, flights, nServers, pc, pos, factory, factoryErr, schemaResps, instances, req,
                   calls>>

\* ------------------------------------------------------------------ the build and the fan-outs
NextFan ==
    \/ SchemaLoop(0, 0)
    \/ NewSchemaServerFactoryReturn
    \/ Server
    \/ ConfigureProviderBegin
    \/ ConfigureProviderCall(MaxDiags)
    \/ ConfigureProviderReturn
    \/ StopProviderBegin
    \/ StopProviderCall
    \/ StopProviderReturn

InitFan == InitWith(MaxFanServers)

SpecFan == InitFan /\ [][NextFan]_vars

\* ------------------------------------------------------------------ every operation
\* the most schema items the servers of a build declare together
MaxServedItems == 2

NextServe ==
    \/ SchemaLoop(0, MaxServedItems)
    \/ NewSchemaServerFactoryReturn
    \/ Server
    \/ GetProviderSchema
    \/ PrepareProviderConfig
    \/ ValidateResourceTypeConfig
    \/ ValidateDataSourceConfig
    \/ UpgradeResourceState
    \/ ReadResource
    \/ PlanResourceChange
    \/ ApplyResourceChange
    \/ ImportResourceState
    \/ ReadDataSource
    \/ ConfigureProviderBegin
    \/ ConfigureProviderCall(0)
    \/ ConfigureProviderReturn
    \/ StopProviderBegin
    \/ StopProviderCall
    \/ StopProviderReturn

SpecServe == Init /\ [][NextServe]_vars

\* ------------------------------------------------------------------ concurrent fan-outs
\* Each request is served by a goroutine of its own, which runs the handler's loop;
\* the call of a server and its return are separate steps, so that the steps of
\* other requests fall between them.

\* a loop that starts the call of the server at fl.i and goes on without its answer
CallBegunNotAwaited(fl) ==
    [fl EXCEPT !.i = @ + 1, !.log = Append(@, [ev |-> "call", pos |-> fl.i])]

\* the goroutine fl has called the server at fl.i and waits for the call to return
CallBegun(fl) ==
    [fl EXCEPT !.pc = "call", !.log = Append(@, [ev |-> "call", pos |-> fl.i])]

\* the goroutine fl after the call of the server at fl.i has returned: out is what
\* the pass of the loop makes of the answer
CallReturned(fl, out, diags) ==
    IF out.returned
        THEN [fl EXCEPT !.pc = "done", !.result = out.result, !.diags = diags,
                        !.log = Append(@, [ev |-> "return", pos |-> fl.i])]
        ELSE [fl EXCEPT !.pc = "loop", !.i = @ + 1, !.diags = diags,
                        !.log = Append(@, [ev |-> "return", pos |-> fl.i])]

\* a ConfigureProvider or StopProvider request arrives while others are served
FlightBegin ==
    /\ router.state = "ok"
    /\ \E f \in Flights, op \in {"ConfigureProvider", "StopProvider"} :
          /\ flights[f].pc = "idle"
          /\ flights' = [flights EXCEPT ![f] = [IdleFlight EXCEPT !.op = op, !.pc = "loop"]]
    /\ UNCHANGED <<eq, nServers, pc, pos, factory, factoryErr, schemaResps, instances, router,
                   req, calls, result, fan>>

\* a loop calls its next server
FlightCall ==
    /\ \E f \in Flights :
          /\ flights[f].pc = "loop"
          /\ flights[f].i < Cardinality(DOMAIN router.servers)
          /\ flights' = [flights EXCEPT ![f] = CallBegun(flights[f])]
    /\ UNCHANGED <<eq, nServers, pc, pos, factory, factoryErr, schemaResps, instances, router,
                   req, calls, result, fan>>

\* a call returns, and the loop looks at the answer
FlightCallReturn ==
    /\ \E f \in Flights :
          LET fl == flights[f] IN
          /\ fl.pc = "call"
          /\ \/ /\ fl.op = "ConfigureProvider"
                /\ \E answer \in ConfigureAnswers(fl.i, 0) :
                      LET out == ConfigureLoopBody(fl.diags, fl.i, answer) IN
                      flights' = [flights EXCEPT ![f] = CallReturned(fl, out, out.diags)]
             \/ /\ fl.op = "StopProvider"
                /\ \E answer \in StopAnswers(fl.i) :
                      LET out == StopLoopBody(fl.i, answer) IN
                      flights' = [flights EXCEPT ![f] = CallReturned(fl, out, fl.diags)]
    /\ UNCHANGED <<eq, nServers, pc, pos, factory, factoryErr, schemaResps, instances, router,
                   req, calls, result, fan>>

\* a loop is over
FlightLoopEnd ==
    /\ \E f \in Flights :
          LET fl == flights[f] IN
          /\ fl.pc = "loop"
          /\ fl.i = Cardinality(DOMAIN router.servers)
          /\ flights' = [flights EXCEPT ![f] =
                 [fl EXCEPT !.pc = "done",
                            !.result = IF fl.op = "ConfigureProvider"
                                          THEN ConfigureResult(fl.diags) ELSE StopResult]]
    /\ UNCHANGED <<eq, nServers, pc, pos, factory, factoryErr, schemaResps, instances, router,
                   req, calls, result, fan>>

\* the handler has returned and its goroutine ends
FlightEnd ==
    /\ \E f \in Flights :
          /\ flights[f].pc = "done"
          /\ flights' = [flights EXCEPT ![f] = IdleFlight]
    /\ UNCHANGED <<eq, nServers, pc, pos, factory, factoryErr, schemaResps, instances, router,
                   req, calls, result, fan>>

NextConc ==
    \/ SchemaLoop(0, 0)
    \/ NewSchemaServerFactoryReturn
    \/ Server
    \/ FlightBegin
    \/ FlightCall
    \/ FlightCallReturn
    \/ FlightLoopEnd
    \/ FlightEnd

SpecConc == InitFan /\ [][NextConc]_vars

\* ------------------------------------------------------------------ dynamicValueEquals
\* a tftypes.Type; "nil" is the missing type
SchemaTypes == {"nil", "string", "number"}
\* a nil *tfprotov6.DynamicValue
NilDynamicValue == [isNil |-> TRUE, enc |-> "", typ |-> "", val |-> 0]
\* a *tfprotov6.DynamicValue: nil, one with neither MsgPack nor JSON bytes, or
\* the msgpack or JSON encoding of the val-th value of the type typ
DynamicValues ==
    {NilDynamicValue}
    \cup {[isNil |-> FALSE, enc |-> "none", typ |-> "", val |-> 0]}
    \cup [isNil : {FALSE}, enc : {"msgpack", "json"}, typ : {"string", "number"},
          val : 1..MaxValues]

\* the tftypes.Value of a failed Unmarshal
NoValue == [typ |-> "nil", val |-> 0]
\* DynamicValue.Unmarshal(typ): the value the bytes encode, when there are bytes
\* and they decode as a value of typ, and an error otherwise
Unmarshal(dv, typ) ==
    IF dv.enc = "none" THEN [value |-> NoValue, err |-> "no JSON or msgpack present"]
    ELSE IF dv.typ # typ THEN [value |-> NoValue, err |-> "unsupported type"]
    ELSE [value |-> [typ |-> typ, val |-> dv.val], err |-> ""]

\* dynamicValueEquals comparing the encoded bytes of the two values
dynamicValueEqualsByBytes(schemaType, i, j) ==
    IF i.isNil THEN [equal |-> j.isNil, err |-> ""]
    ELSE IF j.isNil THEN [equal |-> FALSE, err |-> ""]
    ELSE IF schemaType = "nil"
        THEN [equal |-> FALSE, err |-> "unable to unmarshal DynamicValue: missing Type"]
    ELSE [equal |-> i = j, err |-> ""]

dynamicValueEquals(schemaType, i, j) ==
    IF i.isNil THEN [equal |-> j.isNil, err |-> ""]
    ELSE IF j.isNil THEN [equal |-> FALSE, err |-> ""]
    ELSE IF schemaType = "nil"
        THEN [equal |-> FALSE, err |-> "unable to unmarshal DynamicValue: missing Type"]
    ELSE LET iValue == Unmarshal(i, schemaType)
             jValue == Unmarshal(j, schemaType)
         IN  IF iValue.err # ""
                 THEN [equal |-> FALSE, err |-> "unable to unmarshal DynamicValue: %w"]
             ELSE IF jValue.err # ""
                 THEN [equal |-> FALSE, err |-> "unable to unmarshal DynamicValue: %w"]
             ELSE [equal |-> iValue.value = jValue.value, err |-> ""]

\* dynamicValueEquals is about to be called with any type and any two values
InitEquals ==
    /\ InitServers(0)
    /\ eq \in [state : {"called"}, schemaType : SchemaTypes, i : DynamicValues,
               j : DynamicValues, equal : {FALSE}, err : {""}]

\* the call returns
dynamicValueEqualsReturn ==
    /\ eq.state = "called"
    /\ LET out == dynamicValueEquals(eq.schemaType, eq.i, eq.j) IN
       eq' = [eq EXCEPT !.state = "returned", !.equal = out.equal, !.err = out.err]
    /\ UNCHANGED <<nServers, pc, pos, factory, factoryErr, schemaResps, instances, router,
                   req, calls, result, fan, flights>>

NextEquals == dynamicValueEqualsReturn

SpecEquals == InitEquals /\ [][NextEquals]_vars

\* ================================================================== properties
\* ------------------------------------------------------------------ reading the histories
\* the non-nil entries of a response's diagnostics, in order
NonNilDiags(diags) == SelectSeq(diags, LAMBDA d : d # NilDiag)
IsErrorDiag(d) == d # NilDiag /\ d.Severity = SeverityError
HasErrorDiag(diags) == \E i \in DOMAIN diags : IsErrorDiag(diags[i])
\* diags up to and including its first error-severity entry
UpToFirstError(diags) ==
    LET k == CHOOSE i \in DOMAIN diags :
                 IsErrorDiag(diags[i]) /\ \A j \in 1..(i - 1) : ~IsErrorDiag(diags[j])
    IN  SubSeq(diags, 1, k)

RECURSIVE AnswerDiags(_, _)
\* the non-nil diagnostics the first n calls were answered with, in order
AnswerDiags(cs, n) ==
    IF n = 0 THEN <<>>
    ELSE AnswerDiags(cs, n - 1) \o NonNilDiags(cs[n].answer.Diagnostics)

\* the call cs[i] went to the serving instance of position i - 1
CalledInOrder(cs, op) ==
    \A i \in DOMAIN cs :
        /\ cs[i].op = op
        /\ cs[i].server = router.servers[i - 1]
        /\ instances[cs[i].server] = [pos |-> i - 1, by |-> "Server"]

\* the responses (by index, position + 1) that declare the name n
ResourceDeclarers(n) ==
    {i \in DOMAIN schemaResps : n \in DOMAIN schemaResps[i].ResourceSchemas}
DataSourceDeclarers(n) ==
    {i \in DOMAIN schemaResps : n \in DOMAIN schemaResps[i].DataSourceSchemas}
DuplicateResources == {n \in TypeNames : Cardinality(ResourceDeclarers(n)) > 1}
DuplicateDataSources == {n \in TypeNames : Cardinality(DataSourceDeclarers(n)) > 1}
ProviderDeclarers == {i \in DOMAIN schemaResps : schemaResps[i].Provider # NilSchema}
ProviderMetaDeclarers == {i \in DOMAIN schemaResps : schemaResps[i].ProviderMeta # NilSchema}
LastResp == schemaResps[Len(schemaResps)]
\* the last response passes the checks made before the duplicate-type checks
PassesEarlierChecks ==
    /\ LastResp.err = ""
    /\ ~HasErrorDiag(LastResp.Diagnostics)
    /\ Cardinality(ProviderDeclarers) <= 1
    /\ Cardinality(ProviderMetaDeclarers) <= 1

BuildSucceeded == pc = "returned" /\ factoryErr = NoError
TypeKeyedOps == ResourceOps \cup DataSourceOps
\* the build's mapping that the operation op looks its type name up in
RegisteredFor(op) == IF op \in ResourceOps THEN factory.resources ELSE factory.dataSources

\* ------------------------------------------------------------------ C1
\* C1 (routing correctness): after a successful build, a type-keyed request whose
\* type name is registered, in the mapping of its kind, to position p calls the
\* serving instance of position p, once, with the request, calls no other
\* server, and returns what that call returned.
C1_RoutingCorrectness ==
    (BuildSucceeded /\ router.state = "ok" /\ req.op \in TypeKeyedOps
       /\ req.TypeName \in DOMAIN RegisteredFor(req.op)) =>
        LET p == RegisteredFor(req.op)[req.TypeName] IN
        /\ Len(calls) = 1
        /\ calls[1].server = router.servers[p]
        /\ instances[calls[1].server] = [pos |-> p, by |-> "Server"]
        /\ calls[1].op = req.op
        /\ calls[1].req = req
        /\ result.op = req.op
        /\ result.resp = calls[1].answer.resp
        /\ result.err = calls[1].answer.err

\* a data-source request for a name that position 1 declares as a data source and
\* position 0 as a resource has been served, the server answering with an error
C1_Witness ==
    /\ BuildSucceeded
    /\ req.op = "ValidateDataSourceConfig"
    /\ req.TypeName = "a"
    /\ "a" \in DOMAIN factory.dataSources /\ factory.dataSources["a"] = 1
    /\ "a" \in DOMAIN factory.resources /\ factory.resources["a"] = 0
    /\ Len(calls) = 1
    /\ result.err # NoError

\* ------------------------------------------------------------------ C2
\* C2 as claimed (uniqueness): whenever two responses declare the same resource
\* type name, or the same data-source type name, the build returns the
\* duplicate-type error naming such a type; and a successful build maps each
\* type name to the one position that declared it.
C2_AsClaimed ==
    pc = "returned" =>
        /\ (DuplicateResources \cup DuplicateDataSources # {}) =>
              \/ /\ factoryErr.kind = "duplicate resource"
                 /\ factoryErr.name \in DuplicateResources
              \/ /\ factoryErr.kind = "duplicate data source"
                 /\ factoryErr.name \in DuplicateDataSources
        /\ factoryErr = NoError =>
              \A n \in TypeNames :
                 /\ n \in DOMAIN factory.resources <=> ResourceDeclarers(n) # {}
                 /\ n \in DOMAIN factory.resources =>
                        ResourceDeclarers(n) = {factory.resources[n] + 1}
                 /\ n \in DOMAIN factory.dataSources <=> DataSourceDeclarers(n) # {}
                 /\ n \in DOMAIN factory.dataSources =>
                        DataSourceDeclarers(n) = {factory.dataSources[n] + 1}

\* C2 as amended: once two responses declare the same resource type name, or the
\* same data-source type name, the build has returned an error, at the later of
\* the two; the error is the duplicate-resource error naming such a name when
\* the later response passes the earlier checks (the call, the diagnostics, the
\* provider and provider_meta schemas), and the duplicate-data-source error when
\* moreover no resource is declared twice; and a successful build maps each type
\* name to the one position that declared it.
C2_Uniqueness ==
    /\ (DuplicateResources \cup DuplicateDataSources # {}) =>
          /\ pc = "returned"
          /\ factoryErr # NoError
          /\ pos = Len(schemaResps) - 1
          /\ \A n \in DuplicateResources : Len(schemaResps) \in ResourceDeclarers(n)
          /\ \A n \in DuplicateDataSources : Len(schemaResps) \in DataSourceDeclarers(n)
          /\ (DuplicateResources # {} /\ PassesEarlierChecks) =>
                /\ factoryErr.kind = "duplicate resource"
                /\ factoryErr.name \in DuplicateResources
          /\ (DuplicateResources = {} /\ PassesEarlierChecks) =>
                /\ factoryErr.kind = "duplicate data source"
                /\ factoryErr.name \in DuplicateDataSources
    /\ BuildSucceeded =>
          \A n \in TypeNames :
             /\ n \in DOMAIN factory.resources <=> ResourceDeclarers(n) # {}
             /\ n \in DOMAIN factory.resources =>
                    ResourceDeclarers(n) = {factory.resources[n] + 1}
             /\ n \in DOMAIN factory.dataSources <=> DataSourceDeclarers(n) # {}
             /\ n \in DOMAIN factory.dataSources =>
                    DataSourceDeclarers(n) = {factory.dataSources[n] + 1}

\* the second server declares the data source "b" that the first declared, along
\* with a resource of its own, and the build returns the duplicate-data-source error
C2_Witness ==
    /\ pc = "returned"
    /\ Len(schemaResps) = 2
    /\ DuplicateDataSources = {"b"}
    /\ DOMAIN LastResp.ResourceSchemas = {"a"}
    /\ factoryErr.kind = "duplicate data source"
    /\ factoryErr.name = "b"

\* ------------------------------------------------------------------ C3
\* C3 (single-owner schema): when two responses declare a provider schema (resp. a
\* provider_meta schema) the build returns an error, the duplicate-provider-schema
\* (resp. provider_meta) error when the call and the diagnostics of the later
\* response pass; that error identifies the first owner and the conflicting
\* server; and the two checks are independent: neither error is returned when
\* each of the two schemas has at most one declarer.
C3_SingleOwnerSchema ==
    pc = "returned" =>
        /\ (Cardinality(ProviderDeclarers) > 1 \/ Cardinality(ProviderMetaDeclarers) > 1) =>
              factoryErr # NoError
        /\ (Cardinality(ProviderDeclarers) > 1 /\ LastResp.err = ""
              /\ ~HasErrorDiag(LastResp.Diagnostics)) =>
              factoryErr.kind = "duplicate provider schema"
        /\ (Cardinality(ProviderMetaDeclarers) > 1 /\ Cardinality(ProviderDeclarers) <= 1
              /\ LastResp.err = "" /\ ~HasErrorDiag(LastResp.Diagnostics)) =>
              factoryErr.kind = "duplicate provider_meta schema"
        /\ factoryErr.kind = "duplicate provider schema" =>
              /\ factoryErr.first = GoTypeOfServer(factory.providerSchemaFrom)
              /\ factoryErr.second = GoTypeOfServer(pos)
        /\ factoryErr.kind = "duplicate provider_meta schema" =>
              /\ factoryErr.first = GoTypeOfServer(factory.providerMetaSchemaFrom)
              /\ factoryErr.second = GoTypeOfServer(pos)
        /\ (Cardinality(ProviderDeclarers) <= 1 /\ Cardinality(ProviderMetaDeclarers) <= 1) =>
              factoryErr.kind \notin
                  {"duplicate provider schema", "duplicate provider_meta schema"}

\* ------------------------------------------------------------------ C4
\* C4 (unregistered type): a type-keyed request whose type name is absent from
\* the mapping of its kind returns no response and an error naming the type
\* name, and calls no server.
C4_UnregisteredType ==
    (router.state = "ok" /\ req.op \in TypeKeyedOps
       /\ req.TypeName \notin DOMAIN RegisteredFor(req.op)) =>
        /\ calls = <<>>
        /\ result.op = req.op
        /\ result.resp = "nil"
        /\ result.err.kind = "isn't supported by any servers"
        /\ result.err.name = req.TypeName

\* a resource request for "a", which is registered as a data source only, has
\* been refused
C4_Witness ==
    /\ BuildSucceeded
    /\ req.op = "ReadResource"
    /\ req.TypeName = "a"
    /\ "a" \in DOMAIN factory.dataSources
    /\ "a" \notin DOMAIN factory.resources
    /\ result.op = "ReadResource"
    /\ result.err.name = "a"

\* ------------------------------------------------------------------ C5
\* the call cs[k] was answered without an error and with an error-severity
\* diagnostic, and every call before it without an error and without one
FirstErrorDiagAt(cs, k) ==
    /\ \A j \in 1..k : cs[j].answer.err = ""
    /\ \A j \in 1..(k - 1) : ~HasErrorDiag(cs[j].answer.Diagnostics)
    /\ HasErrorDiag(cs[k].answer.Diagnostics)

RECURSIVE JoinStopErrors(_, _)
\* the join of the non-empty Error fields the first n calls were answered with
JoinStopErrors(cs, n) ==
    IF n = 0 THEN <<>>
    ELSE LET before == JoinStopErrors(cs, n - 1)
             this == cs[n].answer.Error
         IN  IF this = NoStopError THEN before
             ELSE IF before = <<>> THEN this
             ELSE before \o <<-1>> \o this

\* C6 (stop accumulation): a StopProvider request none of whose calls failed has,
\* when it returns, called the serving instance of every position, once each and
\* in order, whatever Error fields they reported, and returns the join of the
\* non-empty Error fields.
C6_StopAccumulation ==
    (req.op = "StopProvider" /\ result.op = "StopProvider"
       /\ \A i \in DOMAIN calls : calls[i].answer.err = "") =>
        /\ Len(calls) = nServers
        /\ CalledInOrder(calls, "StopProvider")
        /\ result.err = NoError
        /\ result.resp.Error = JoinStopErrors(calls, Len(calls))

\* ------------------------------------------------------------------ C7
RECURSIVE EmittedDiagnostics(_, _)
\* the non-nil, non-error diagnostics of the first n schema responses, in order
EmittedDiagnostics(resps, n) ==
    IF n = 0 THEN <<>>
    ELSE EmittedDiagnostics(resps, n - 1)
             \o SelectSeq(resps[n].Diagnostics, LAMBDA d : d # NilDiag /\ ~IsErrorDiag(d))

\* C7 (diagnostic ordering): after a successful build, the response of
\* GetProviderSchema carries the non-error diagnostics of the schema responses,
\* in the order of the servers and, within a server, of its response.
C7_DiagnosticOrdering ==
    (BuildSucceeded /\ result.op = "GetProviderSchema") =>
        result.resp.Diagnostics = EmittedDiagnostics(schemaResps, Len(schemaResps))

\* ------------------------------------------------------------------ C8
\* C8 (fail-closed build): after a build that returned an error no request is
\* served by any server: no SchemaServer built from what the build returned
\* calls one.
C8_FailClosedBuild ==
    factoryErr # NoError => calls = <<>>

\* ------------------------------------------------------------------ C9
\* C9 (configure without errors): a ConfigureProvider request none of whose calls
\* failed or was answered with an error-severity diagnostic has, when it
\* returns, called the serving instance of every position, once each and in
\* order, each with the request, and returns, without an error, the non-nil
\* diagnostics of all the answers, in the order of the servers and, within a
\* server, of its response.
C9_ConfigureWithoutErrors ==
    (req.op = "ConfigureProvider" /\ result.op = "ConfigureProvider"
       /\ \A i \in DOMAIN calls :
             /\ calls[i].answer.err = ""
             /\ ~HasErrorDiag(calls[i].answer.Diagnostics)) =>
        /\ Len(calls) = nServers
        /\ CalledInOrder(calls, "ConfigureProvider")
        /\ \A i \in DOMAIN calls : calls[i].req = req
        /\ fan = NoFan
        /\ result.err = NoError
        /\ ~result.resp.isNil
        /\ result.resp.Diagnostics = AnswerDiags(calls, Len(calls))

\* three servers answered with a warning, with a nil entry and a warning, and
\* with nothing, and the request returned the two warnings
C9_Witness ==
    /\ req.op = "ConfigureProvider"
    /\ result.op = "ConfigureProvider"
    /\ nServers = 3
    /\ Len(calls) = 3
    /\ \A i \in DOMAIN calls :
          calls[i].answer.err = "" /\ ~HasErrorDiag(calls[i].answer.Diagnostics)
    /\ Len(calls[1].answer.Diagnostics) = 1
    /\ Len(calls[2].answer.Diagnostics) = 2
    /\ calls[2].answer.Diagnostics[1] = NilDiag
    /\ Len(result.resp.Diagnostics) = 2

\* ------------------------------------------------------------------ C10
\* C10 (configure transport failure): when the call of the k-th server fails, the
\* request calls no server after it and has returned that server's response as
\* it came, not the diagnostics accumulated before it, with an error that wraps
\* the cause and carries the type of that server.
C10_ConfigureTransportFailure ==
    req.op = "ConfigureProvider" =>
        \A k \in DOMAIN calls :
            calls[k].answer.err # "" =>
                /\ Len(calls) = k
                /\ CalledInOrder(calls, "ConfigureProvider")
                /\ fan = NoFan
                /\ result.op = "ConfigureProvider"
                /\ result.resp.isNil = calls[k].answer.isNil
                /\ result.resp.Diagnostics = calls[k].answer.Diagnostics
                /\ result.err.kind = "error configuring"
                /\ result.err.cause = calls[k].answer.err
                /\ result.err.first = GoTypeOfServer(k - 1)

\* of three servers the first answered with a warning and the call of the second
\* failed, with a response holding a warning of its own
C10_Witness ==
    /\ req.op = "ConfigureProvider"
    /\ nServers = 3
    /\ Len(calls) = 2
    /\ Len(NonNilDiags(calls[1].answer.Diagnostics)) = 1
    /\ calls[2].answer.err # ""
    /\ Len(calls[2].answer.Diagnostics) = 1
    /\ result.resp.Diagnostics = calls[2].answer.Diagnostics
    /\ result.err.first = "*provider.B"

\* ------------------------------------------------------------------ C11
\* C11 (stop transport failure): when the call of the k-th server fails, the
\* StopProvider request calls no server after it and has returned an error that
\* wraps the cause and carries the type of that server, whatever the servers
\* before it answered.
C11_StopTransportFailure ==
    req.op = "StopProvider" =>
        \A k \in DOMAIN calls :
            calls[k].answer.err # "" =>
                /\ Len(calls) = k
                /\ CalledInOrder(calls, "StopProvider")
                /\ fan = NoFan
                /\ result.op = "StopProvider"
                /\ result.err.kind = "error stopping"
                /\ result.err.cause = calls[k].answer.err
                /\ result.err.first = GoTypeOfServer(k - 1)

\* of three servers the first two stopped and the call of the third failed
C11_Witness ==
    /\ req.op = "StopProvider"
    /\ nServers = 3
    /\ Len(calls) = 3
    /\ calls[3].answer.err # ""
    /\ result.err.kind = "error stopping"

\* ------------------------------------------------------------------ C12
\* the schema of the one response that declares one, or NilSchema
DeclaredProvider ==
    IF ProviderDeclarers = {} THEN NilSchema
    ELSE schemaResps[CHOOSE i \in ProviderDeclarers : TRUE].Provider
DeclaredProviderMeta ==
    IF ProviderMetaDeclarers = {} THEN NilSchema
    ELSE schemaResps[CHOOSE i \in ProviderMetaDeclarers : TRUE].ProviderMeta
\* the resource schemas the responses declare, by name
DeclaredResourceSchemas ==
    [n \in {m \in TypeNames : ResourceDeclarers(m) # {}} |->
        schemaResps[CHOOSE i \in ResourceDeclarers(n) : TRUE].ResourceSchemas[n]]
DeclaredDataSourceSchemas ==
    [n \in {m \in TypeNames : DataSourceDeclarers(m) # {}} |->
        schemaResps[CHOOSE i \in DataSourceDeclarers(n) : TRUE].DataSourceSchemas[n]]

\* C12 (GetSchema idempotence): every GetProviderSchema request, whatever requests
\* were served before it, calls no server and returns, without an error, the
\* provider schema, provider_meta schema, resource schemas and data-source
\* schemas the build left in the factory: after a successful build, those the
\* servers declared.
C12_GetSchemaIdempotence ==
    (router.state = "ok" /\ result.op = "GetProviderSchema") =>
        /\ calls = <<>>
        /\ result.err = NoError
        /\ result.resp.Provider = factory.providerSchema
        /\ result.resp.ProviderMeta = factory.providerMetaSchema
        /\ result.resp.ResourceSchemas = factory.resourceSchemas
        /\ result.resp.DataSourceSchemas = factory.dataSourceSchemas
        /\ BuildSucceeded =>
              /\ result.resp.Provider = DeclaredProvider
              /\ result.resp.ProviderMeta = DeclaredProviderMeta
              /\ result.resp.ResourceSchemas = DeclaredResourceSchemas
              /\ result.resp.DataSourceSchemas = DeclaredDataSourceSchemas

\* the merged schema of a build in which the second server declared the provider
\* schema and the first a resource and a data source has been returned
C12_Witness ==
    /\ BuildSucceeded
    /\ result.op = "GetProviderSchema"
    /\ ProviderDeclarers = {2}
    /\ DOMAIN result.resp.ResourceSchemas = {"a"}
    /\ DOMAIN result.resp.DataSourceSchemas = {"b"}
    /\ result.resp.ResourceSchemas["a"].from = 0
    /\ result.resp.ProviderMeta = NilSchema

C13_WitnessNoOwner ==
    /\ BuildSucceeded
    /\ nServers = 2
    /\ req.op = "PrepareProviderConfig"
    /\ ProviderDeclarers = {}
    /\ result.err # NoError

\* ------------------------------------------------------------------ C14
\* the first error-severity entry of diags
FirstErrorDiag(diags) ==
    diags[CHOOSE i \in DOMAIN diags :
              IsErrorDiag(diags[i]) /\ \A j \in 1..(i - 1) : ~IsErrorDiag(diags[j])]
\* the server() calls NewSchemaServerFactory made
BuildInstances == {i \in DOMAIN instances : instances[i].by = "NewSchemaServerFactory"}

\* C14 (build abort on backend failure): the build calls the server functions in
\* the order given, each once, and asks each server for its schema before calling
\* the next function; when the k-th server's GetProviderSchema fails, or its
\* response holds an error-severity diagnostic (nil entries passed over), the
\* build has returned an error naming that server and the cause, or the first
\* such diagnostic, and no later function was called, nor is one ever called.
C14_BuildAbort ==
    /\ BuildInstances = DOMAIN schemaResps
    /\ \A i \in DOMAIN schemaResps : instances[i].pos = i - 1
    /\ \A k \in DOMAIN schemaResps :
          /\ schemaResps[k].err # "" =>
                /\ Len(schemaResps) = k
                /\ pc = "returned"
                /\ factoryErr.kind = "error retrieving schema"
                /\ factoryErr.first = GoTypeOfServer(k - 1)
                /\ factoryErr.cause = schemaResps[k].err
                /\ \A i \in DOMAIN instances : instances[i].pos < k
          /\ (schemaResps[k].err = "" /\ HasErrorDiag(schemaResps[k].Diagnostics)) =>
                /\ Len(schemaResps) = k
                /\ pc = "returned"
                /\ factoryErr.kind = "error diagnostic retrieving schema"
                /\ factoryErr.first = GoTypeOfServer(k - 1)
                /\ factoryErr.diag = FirstErrorDiag(schemaResps[k].Diagnostics)
                /\ \A i \in DOMAIN instances : instances[i].pos < k

\* the first of two servers answered with a nil entry followed by an
\* error-severity diagnostic, and the build has failed without calling the second
C14_Witness ==
    /\ nServers = 2
    /\ Len(schemaResps) = 1
    /\ Len(schemaResps[1].Diagnostics) = 2
    /\ schemaResps[1].Diagnostics[1] = NilDiag
    /\ IsErrorDiag(schemaResps[1].Diagnostics[2])
    /\ pc = "returned"
    /\ factoryErr.kind = "error diagnostic retrieving schema"

\* the schema call of the second of two servers failed
C14_WitnessCallFailure ==
    /\ nServers = 2
    /\ Len(schemaResps) = 2
    /\ schemaResps[2].err # ""
    /\ factoryErr.kind = "error retrieving schema"

\* ------------------------------------------------------------------ C15
\* C15 (merged-table completeness): after a successful build the factory's
\* resources mapping has exactly the resource names the responses declared, each
\* mapped to the position of the one response that declared it, and
\* resourceSchemas has the same names, each with that response's schema; the same
\* for dataSources and dataSourceSchemas.
C15_MergedTableCompleteness ==
    BuildSucceeded =>
        /\ DOMAIN factory.resources = {n \in TypeNames : ResourceDeclarers(n) # {}}
        /\ DOMAIN factory.dataSources = {n \in TypeNames : DataSourceDeclarers(n) # {}}
        /\ \A n \in DOMAIN factory.resources :
              ResourceDeclarers(n) = {factory.resources[n] + 1}
        /\ \A n \in DOMAIN factory.dataSources :
              DataSourceDeclarers(n) = {factory.dataSources[n] + 1}
        /\ factory.resourceSchemas = DeclaredResourceSchemas
        /\ factory.dataSourceSchemas = DeclaredDataSourceSchemas
        /\ DOMAIN factory.resourceSchemas = DOMAIN factory.resources
        /\ DOMAIN factory.dataSourceSchemas = DOMAIN factory.dataSources

\* two servers have declared a resource each, the second a data source as well,
\* and the build has succeeded
C15_Witness ==
    /\ BuildSucceeded
    /\ nServers = 2
    /\ DOMAIN schemaResps[1].ResourceSchemas = {"b"}
    /\ DOMAIN schemaResps[2].ResourceSchemas = {"a"}
    /\ DOMAIN schemaResps[2].DataSourceSchemas = {"a"}
    /\ factory.resources["a"] = 1
    /\ factory.resources["b"] = 0

\* ------------------------------------------------------------------ C16
\* C16 (serving instances): Server() on a successfully built factory calls every
\* server function once more, in the order given, and every entry of the
\* router's resources and dataSources maps is the instance that call made at the
\* position of the response that declared the name, never one the build made.
C16_ServingInstances ==
    (BuildSucceeded /\ router.state = "ok") =>
        /\ Len(instances) = 2 * nServers
        /\ \A p \in Positions :
              /\ instances[nServers + p + 1] = [pos |-> p, by |-> "Server"]
              /\ router.servers[p] = nServers + p + 1
        /\ DOMAIN router.servers = Positions
        /\ DOMAIN router.resources = {n \in TypeNames : ResourceDeclarers(n) # {}}
        /\ DOMAIN router.dataSources = {n \in TypeNames : DataSourceDeclarers(n) # {}}
        /\ \A n \in DOMAIN router.resources :
              /\ router.resources[n] \notin BuildInstances
              /\ router.resources[n] = router.servers[factory.resources[n]]
              /\ (instances[router.resources[n]].pos + 1) \in ResourceDeclarers(n)
        /\ \A n \in DOMAIN router.dataSources :
              /\ router.dataSources[n] \notin BuildInstances
              /\ router.dataSources[n] = router.servers[factory.dataSources[n]]
              /\ (instances[router.dataSources[n]].pos + 1) \in DataSourceDeclarers(n)

\* the router of two servers, the second of which declared a resource and the
\* first a data source, has been made
C16_Witness ==
    /\ BuildSucceeded
    /\ router.state = "ok"
    /\ nServers = 2
    /\ "a" \in DOMAIN router.resources
    /\ "a" \in DOMAIN router.dataSources
    /\ instances[router.resources["a"]] = [pos |-> 1, by |-> "Server"]
    /\ instances[router.dataSources["a"]] = [pos |-> 0, by |-> "Server"]

\* ------------------------------------------------------------------ C17
\* C17 (immutability): once Server() has returned the router, no step of any
\* request (GetProviderSchema, PrepareProviderConfig, a type-keyed operation,
\* ConfigureProvider, StopProvider, whatever it returns) changes the router's
\* resources and dataSources maps, its schema handler, its
\* prepareProviderConfigServer or its servers, nor the factory it was made from.
C17_Immutability ==
    [][router.state = "ok" => (router' = router /\ factory' = factory)]_vars

\* a router with a registered resource has served a StopProvider request that
\* came back with an error
C17_Witness ==
    /\ router.state = "ok"
    /\ DOMAIN router.resources # {}
    /\ req.op = "StopProvider"
    /\ fan = NoFan
    /\ result.err.kind = "error stopping"

\* ------------------------------------------------------------------ C18
\* C18 (sequential fan-out): in every ConfigureProvider or StopProvider request,
\* whatever other requests are being served at the same time, the calls of
\* servers and their returns alternate, beginning with the call of position 0,
\* each return being that of the call before it and each further call that of the
\* next position: no call begins before the call before it has returned.
C18_SequentialFanOut ==
    \A f \in Flights :
        LET fl == flights[f] IN
        /\ \A j \in DOMAIN fl.log :
              fl.log[j] = IF j % 2 = 1
                             THEN [ev |-> "call", pos |-> (j - 1) \div 2]
                             ELSE [ev |-> "return", pos |-> (j - 2) \div 2]
        /\ Len(fl.log) <= 2 * Cardinality(DOMAIN router.servers)
        /\ (fl.pc = "call") <=> (Len(fl.log) % 2 = 1)

\* two requests are served at once: one waits for the third server's answer to
\* ConfigureProvider while the other waits for the first server's to StopProvider
C18_Witness ==
    /\ nServers = 3
    /\ flights[1].op = "ConfigureProvider"
    /\ flights[1].pc = "call"
    /\ flights[1].i = 2
    /\ Len(flights[1].log) = 5
    /\ flights[2].op = "StopProvider"
    /\ flights[2].pc = "call"
    /\ flights[2].i = 0

\* ------------------------------------------------------------------ C19
\* the responses before the last that declare what the last declares too
EarlierProvider ==
    {i \in ProviderDeclarers : i < Len(schemaResps) /\ LastResp.Provider # NilSchema}
EarlierProviderMeta ==
    {i \in ProviderMetaDeclarers : i < Len(schemaResps) /\ LastResp.ProviderMeta # NilSchema}
EarlierResource(n) ==
    {i \in ResourceDeclarers(n) : i < Len(schemaResps) /\ n \in DOMAIN LastResp.ResourceSchemas}
EarlierDataSource(n) ==
    {i \in DataSourceDeclarers(n) :
        i < Len(schemaResps) /\ n \in DOMAIN LastResp.DataSourceSchemas}
\* the check the last response fails first, in the order of the loop body, NoError's if none
FirstFailingCheck ==
    IF LastResp.err # "" THEN "error retrieving schema"
    ELSE IF HasErrorDiag(LastResp.Diagnostics) THEN "error diagnostic retrieving schema"
    ELSE IF EarlierProvider # {} THEN "duplicate provider schema"
    ELSE IF EarlierProviderMeta # {} THEN "duplicate provider_meta schema"
    ELSE IF \E n \in TypeNames : EarlierResource(n) # {} THEN "duplicate resource"
    ELSE IF \E n \in TypeNames : EarlierDataSource(n) # {} THEN "duplicate data source"
    ELSE NoError.kind
\* the positions of the responses the error reports a conflict with
FirstOwners ==
    LET owners == IF factoryErr.kind = "duplicate provider schema" THEN EarlierProvider
                  ELSE IF factoryErr.kind = "duplicate provider_meta schema"
                      THEN EarlierProviderMeta
                  ELSE IF factoryErr.kind = "duplicate resource"
                      THEN EarlierResource(factoryErr.name)
                  ELSE EarlierDataSource(factoryErr.name)
    IN  {i - 1 : i \in owners}
DuplicateKinds ==
    {"duplicate provider schema", "duplicate provider_meta schema", "duplicate resource",
     "duplicate data source"}

\* the build reports the first check the failing response fails, and a conflict
\* is reported when the later of the two servers answers
ReportsFirstFailingCheck ==
    (schemaResps # <<>> /\ (pc = "returned" \/ pos = Len(schemaResps))) =>
        /\ factoryErr.kind = FirstFailingCheck
        /\ factoryErr.kind \in DuplicateKinds =>
              /\ factoryErr.second = GoTypeOfServer(Len(schemaResps) - 1)
              /\ FirstOwners # {}
              /\ \A p \in FirstOwners : p < Len(schemaResps) - 1

\* C19 (build check precedence): a failed build reports the first check its last
\* response fails, in the order error-severity diagnostic, duplicate provider
\* schema, duplicate provider_meta schema, duplicate resource, duplicate data
\* source; a conflict is reported at the later server, and the error names the
\* earlier server as the first owner.
C19_BuildCheckPrecedence ==
    /\ ReportsFirstFailingCheck
    /\ factoryErr.kind \in DuplicateKinds =>
          \A p \in FirstOwners : factoryErr.first = GoTypeOfServer(p)

\* ------------------------------------------------------------------ C20
\* the index of the first error-severity entry of diags
FirstErrorIndex(diags) ==
    CHOOSE i \in DOMAIN diags :
        IsErrorDiag(diags[i]) /\ \A j \in 1..(i - 1) : ~IsErrorDiag(diags[j])
\* what the claim says of a returned sequence when the k-th call was answered with
\* an error-severity diagnostic
TruncatedAt(returned, k) ==
    LET d == calls[k].answer.Diagnostics
        j == FirstErrorIndex(d)
    IN  /\ returned # <<>>
        /\ returned[Len(returned)] = d[j]
        /\ \A t \in (j + 1)..Len(d) :
              d[t] # NilDiag => \A u \in DOMAIN returned : returned[u] # d[t]
        /\ \A u \in DOMAIN returned : IsErrorDiag(returned[u]) <=> u = Len(returned)

\* C20 as claimed (configure diagnostic truncation): whatever the calls
\* returned, the diagnostics of a ConfigureProvider result hold no nil entry,
\* and when a server answered with an error-severity diagnostic they end with
\* the first such entry, hold nothing that followed it in that answer, and hold
\* no other error-severity diagnostic.
C20_AsClaimed ==
    (req.op = "ConfigureProvider" /\ result.op = "ConfigureProvider") =>
        /\ \A u \in DOMAIN result.resp.Diagnostics : result.resp.Diagnostics[u] # NilDiag
        /\ \A k \in DOMAIN calls :
              HasErrorDiag(calls[k].answer.Diagnostics) =>
                  TruncatedAt(result.resp.Diagnostics, k)

\* C20 (configure diagnostic truncation), amended: when no call of a
\* ConfigureProvider request failed, the diagnostics of its result hold no nil
\* entry, and when a server answered with an error-severity diagnostic they end
\* with the first such entry, hold nothing that followed it in that answer, and
\* hold no other error-severity diagnostic.
C20_DiagnosticTruncation ==
    (req.op = "ConfigureProvider" /\ result.op = "ConfigureProvider"
       /\ \A i \in DOMAIN calls : calls[i].answer.err = "") =>
        /\ \A u \in DOMAIN result.resp.Diagnostics : result.resp.Diagnostics[u] # NilDiag
        /\ \A k \in DOMAIN calls :
              HasErrorDiag(calls[k].answer.Diagnostics) =>
                  TruncatedAt(result.resp.Diagnostics, k)

\* the first server answered with a warning, the second with an error-severity
\* diagnostic followed by a warning, and the request returned the first two
C20_Witness ==
    /\ req.op = "ConfigureProvider"
    /\ result.op = "ConfigureProvider"
    /\ Len(calls) = 2
    /\ calls[1].answer.err = ""
    /\ calls[2].answer.err = ""
    /\ Len(calls[1].answer.Diagnostics) = 1
    /\ Len(calls[2].answer.Diagnostics) = 2
    /\ IsErrorDiag(calls[2].answer.Diagnostics[1])
    /\ calls[2].answer.Diagnostics[2] # NilDiag
    /\ Len(result.resp.Diagnostics) = 2

\* ------------------------------------------------------------------ C21
\* the responses that declare the name n in the kind the operation op is about
DeclarersFor(op, n) ==
    IF op \in ResourceOps THEN ResourceDeclarers(n) ELSE DataSourceDeclarers(n)
\* no call failed and nothing was declared twice within its kind
NothingDeclaredTwice ==
    /\ \A i \in DOMAIN schemaResps :
          schemaResps[i].err = "" /\ ~HasErrorDiag(schemaResps[i].Diagnostics)
    /\ Cardinality(ProviderDeclarers) <= 1
    /\ Cardinality(ProviderMetaDeclarers) <= 1
    /\ DuplicateResources = {}
    /\ DuplicateDataSources = {}

\* C21 (separate namespaces): a build none of whose calls failed and in which no
\* name was declared twice as a resource, nor twice as a data source, succeeds,
\* whatever names are declared both as a resource and as a data source; after a
\* successful build a type-keyed request is served by the serving instance of
\* the server that declared its name in the kind of the operation, and by no
\* other, and is refused without a call when no server declared the name in that
\* kind, whether or not one declared it in the other.
C21_SeparateNamespaces ==
    /\ (pc = "returned" /\ NothingDeclaredTwice) => factoryErr = NoError
    /\ (BuildSucceeded /\ router.state = "ok" /\ req.op \in TypeKeyedOps) =>
          IF DeclarersFor(req.op, req.TypeName) = {}
              THEN /\ calls = <<>>
                   /\ result.err.kind = "isn't supported by any servers"
                   /\ result.err.name = req.TypeName
              ELSE /\ Len(calls) = 1
                   /\ instances[calls[1].server].by = "Server"
                   /\ DeclarersFor(req.op, req.TypeName)
                          = {instances[calls[1].server].pos + 1}
                   /\ result.resp = calls[1].answer.resp
                   /\ result.err = calls[1].answer.err

\* the first server declared "b" as a resource and the second as a data source:
\* the build succeeded and a resource request for "b" has reached the first
C21_Witness ==
    /\ BuildSucceeded
    /\ nServers = 2
    /\ ResourceDeclarers("b") = {1}
    /\ DataSourceDeclarers("b") = {2}
    /\ req.op = "PlanResourceChange"
    /\ req.TypeName = "b"
    /\ Len(calls) = 1
    /\ instances[calls[1].server].pos = 0

\* "b" was declared as a resource only, and a data-source request for it has
\* been refused
C21_WitnessOtherKind ==
    /\ BuildSucceeded
    /\ ResourceDeclarers("b") # {}
    /\ DataSourceDeclarers("b") = {}
    /\ req.op = "ReadDataSource"
    /\ req.TypeName = "b"
    /\ calls = <<>>
    /\ result.err.kind = "isn't supported by any servers"

\* ------------------------------------------------------------------ C22
\* C22 (dynamicValueEquals nil handling): with any type, missing or not, two nil
\* values are equal and a nil and a non-nil value, in either order, are not, both
\* without an error; two non-nil values with the missing type give false and the
\* missing-type error, which nothing else gives; two non-nil values with a type
\* give an error, and false, when either does not decode as that type, and
\* otherwise whether the two decoded values are equal.
C22_NilHandling ==
    eq.state = "returned" =>
        /\ (eq.i.isNil /\ eq.j.isNil) => (eq.equal /\ eq.err = "")
        /\ (eq.i.isNil # eq.j.isNil) => (~eq.equal /\ eq.err = "")
        /\ (eq.err = "unable to unmarshal DynamicValue: missing Type")
              <=> (~eq.i.isNil /\ ~eq.j.isNil /\ eq.schemaType = "nil")
        /\ eq.err # "" => ~eq.equal
        /\ (~eq.i.isNil /\ ~eq.j.isNil /\ eq.schemaType # "nil") =>
              LET iValue == Unmarshal(eq.i, eq.schemaType)
                  jValue == Unmarshal(eq.j, eq.schemaType)
              IN  IF iValue.err # "" \/ jValue.err # ""
                      THEN eq.err = "unable to unmarshal DynamicValue: %w"
                      ELSE eq.err = "" /\ (eq.equal <=> iValue.value = jValue.value)

\* the msgpack and the JSON encoding of the same string have been compared
\* against the string type and found equal
C22_Witness ==
    /\ eq.state = "returned"
    /\ eq.schemaType = "string"
    /\ eq.i.enc = "msgpack"
    /\ eq.j.enc = "json"
    /\ eq.i.val = eq.j.val
    /\ eq.equal
    /\ eq.err = ""

\* a non-nil and a nil value have been compared with the type missing
C22_WitnessOneNil ==
    /\ eq.state = "returned"
    /\ eq.schemaType = "nil"
    /\ ~eq.i.isNil
    /\ eq.j.isNil
    /\ ~eq.equal
    /\ eq.err = ""

====
